---- MODULE Spec2Model ----
(***************************************************************************)
(* Model of src/server.py: the /upload-audio pipeline (upload_audio), the  *)
(* duplicate scan (check_audio_similarity, compute_similarity) and the     *)
(* sqlite table audio_metadata written by store_audio_metadata.            *)
(*                                                                         *)
(* Numbers.  The program computes in 64-bit floats; the model computes in  *)
(* fixed point.  A fingerprint coefficient c stands for the real c / Unit, *)
(* a similarity score s for the real s / 10000, and the percentage         *)
(* returned by check_audio_similarity (score * 100) for p / 10000.  Square *)
(* roots are integer square roots of the argument scaled by 10^4, so a     *)
(* score is exact whenever both roots are rational, and is truncated by    *)
(* less than 0.001 otherwise.                                              *)
(***************************************************************************)
EXTENDS Integers, Sequences, FiniteSets, TLC

\* ------------------------------------------------------------------ bounds
\* submissions accepted by Receive over a run
MaxSubmissions == 2
\* rows of a pre-existing audio_metadata table (SpecScan)
MaxCorpus == 3
\* direct calls of store_audio_metadata (SpecStore)
MaxCalls == 3

\* --------------------------------------------------------- number encoding
\* coefficients are counted in sixths
Unit == 6
\* 0.50 of line 96, in units of 1/10000
MATCH_THRESHOLD == 5000
\* 75 of line 146, in units of 1/10000
REJECT_THRESHOLD == 750000
\* the weights 0.6 and 0.4 of line 75, in tenths
COSINE_WEIGHT == 6
EUCLIDEAN_WEIGHT == 4

\* ------------------------------------------------------------------- audio
\* An uploaded file is what librosa makes of it: either it cannot be loaded,
\* or it yields the normalised, flattened MFCC matrix `features`.
Decoded(f) == [decodable |-> TRUE, features |-> f]
Undecodable == [decodable |-> FALSE, features |-> <<>>]

AudioP == Decoded(<<6, 0, 0, 0>>)
AudioQ == Decoded(<<16, 0, 0, 0>>)
AudioH == Decoded(<<3, 3, 3, 3>>)
AudioR == Decoded(<<8, 0, 0, 0>>)
AudioM == Decoded(<<6, 6, 0, 0>>)
\* a signal whose comparison is numerically indeterminate (0/0 in cosine)
AudioZ == Decoded(<<0, 0, 0, 0>>)
\* a shorter recording: fewer frames, hence a shorter fingerprint
AudioS == Decoded(<<6, 0>>)

Audios == {AudioP, AudioQ, AudioH, AudioR, AudioM, AudioZ, AudioS, Undecodable}
\* the files submitted to /upload-audio in Spec
UploadAudios == {AudioP, AudioQ, AudioH, AudioS, AudioZ, Undecodable}
Filenames == {"song.wav"}
Workers == {"w1", "w2"}

\* -------------------------------------------------------------------- JSON
\* json.dumps of a list of floats and json.loads of a TEXT column.  Python
\* writes the shortest repr that reads back to the same float, so a dumped
\* list loads to the same list; any other text makes json.loads raise.
None == [json |-> "None", items |-> <<>>]
InvalidText == [json |-> "invalid", items |-> <<>>]
json_dumps(v) == [json |-> "array", items |-> v]
json_loads(t) ==
    IF t.json = "array" THEN [raised |-> FALSE, value |-> t.items]
    ELSE [raised |-> TRUE, value |-> <<>>]

\* get_mfcc: None when librosa raises, else the dumped fingerprint
get_mfcc(audio) ==
    IF audio.decodable THEN json_dumps(audio.features) ELSE None

\* -------------------------------------------------------------- arithmetic
RECURSIVE SqrtIter(_, _, _)
SqrtIter(n, lo, hi) ==
    IF lo >= hi THEN lo
    ELSE LET mid == (lo + hi + 1) \div 2
         IN IF mid * mid <= n THEN SqrtIter(n, mid, hi)
            ELSE SqrtIter(n, lo, mid - 1)
\* floor of the square root
ISqrt(n) == SqrtIter(n, 0, 46340)

RECURSIVE DotFrom(_, _, _)
DotFrom(u, v, i) ==
    IF i > Len(u) THEN 0 ELSE u[i] * v[i] + DotFrom(u, v, i + 1)
Dot(u, v) == DotFrom(u, v, 1)
Diff(u, v) == [i \in 1..Len(u) |-> u[i] - v[i]]

\* A float result: a number, or NaN.
Num(x) == [kind |-> "num", val |-> x]
NaN == [kind |-> "nan", val |-> 0]
\* the comparison of line 96 written as a strict one
GT(x, t) == x.kind = "num" /\ x.val > t
\* Python's >= on floats: every comparison with NaN is False
GE(x, t) == x.kind = "num" /\ x.val >= t

\* ----------------------------------------------------- compute_similarity
\* scipy's cosine and euclidean raise ValueError on vectors of different
\* length, and the except clause returns 0.  A zero vector makes
\* uv / sqrt(uu * vv) = 0/0 = NaN, which is returned as it is.
compute_similarity(vec1, vec2) ==
    IF Len(vec1) # Len(vec2) THEN Num(0)
    ELSE LET uv == Dot(vec1, vec2)
             uu == Dot(vec1, vec1)
             vv == Dot(vec2, vec2)
             dd == Dot(Diff(vec1, vec2), Diff(vec1, vec2))
         IN IF uu * vv = 0 THEN NaN
            ELSE LET den == ISqrt(uu * vv * 10000)
                     mag == ((IF uv >= 0 THEN uv ELSE -uv) * 100000) \div den
                     cosine_sim == IF uv >= 0 THEN mag ELSE -mag
                     euclidean_dist == ISqrt(dd * 10000)
                     inverse == (1000 * 100 * Unit) \div (100 * Unit + euclidean_dist)
                 IN Num(COSINE_WEIGHT * cosine_sim + EUCLIDEAN_WEIGHT * inverse)

\* ----------------------------------------------- variants of the scan loop
\* a scan that keeps the best match instead of returning on the first
RECURSIVE ScanFromBest(_, _, _)
ScanFromBest(new_audio_mfcc, existing_audios, i) ==
    IF i > Len(existing_audios)
    THEN [ret |-> 0, evaluated |-> Len(existing_audios)]
    ELSE LET rest == ScanFromBest(new_audio_mfcc, existing_audios, i + 1)
             stored_mfcc == json_loads(existing_audios[i].mfcc)
             new_audio_vec == json_loads(new_audio_mfcc)
         IN IF stored_mfcc.raised THEN rest
            ELSE LET similarity ==
                         compute_similarity(new_audio_vec.value, stored_mfcc.value)
                 IN IF GE(similarity, MATCH_THRESHOLD)
                       /\ similarity.val * 100 > rest.ret
                    THEN [ret |-> similarity.val * 100,
                          evaluated |-> Len(existing_audios)]
                    ELSE rest

\* a scan whose try block encloses the loop: the first row json.loads
\* cannot read ends it
RECURSIVE ScanFromAbort(_, _, _)
ScanFromAbort(new_audio_mfcc, existing_audios, i) ==
    IF i > Len(existing_audios)
    THEN [ret |-> 0, evaluated |-> Len(existing_audios)]
    ELSE LET stored_mfcc == json_loads(existing_audios[i].mfcc)
             new_audio_vec == json_loads(new_audio_mfcc)
         IN IF stored_mfcc.raised
            THEN [ret |-> 0, evaluated |-> i]
            ELSE LET similarity ==
                         compute_similarity(new_audio_vec.value, stored_mfcc.value)
                 IN IF GE(similarity, MATCH_THRESHOLD)
                    THEN [ret |-> similarity.val * 100, evaluated |-> i]
                    ELSE ScanFromAbort(new_audio_mfcc, existing_audios, i + 1)

\* ------------------------------------------------- check_audio_similarity
\* The for loop of lines 90-100 over the fetched rows, from row i on.
\* `ret` is the value returned, `evaluated` the number of rows the loop
\* has visited when it returns.
RECURSIVE ScanFrom(_, _, _)
ScanFrom(new_audio_mfcc, existing_audios, i) ==
    IF i > Len(existing_audios)
    THEN [ret |-> 0, evaluated |-> Len(existing_audios)]
    ELSE LET stored_mfcc == json_loads(existing_audios[i].mfcc)
             new_audio_vec == json_loads(new_audio_mfcc)
         IN IF stored_mfcc.raised
            THEN ScanFrom(new_audio_mfcc, existing_audios, i + 1)
            ELSE LET similarity ==
                         compute_similarity(new_audio_vec.value, stored_mfcc.value)
                 IN IF GE(similarity, MATCH_THRESHOLD)
                    THEN [ret |-> similarity.val * 100, evaluated |-> i]
                    ELSE ScanFrom(new_audio_mfcc, existing_audios, i + 1)

ScanLoopResult(new_audio_mfcc, existing_audios) ==
    ScanFrom(new_audio_mfcc, existing_audios, 1)

\* ---------------------------------------------------- store_audio_metadata
\* store_audio_metadata without its DELETE
DeleteNothing(table, filename) == table

RECURSIVE DeleteWhere(_, _)
\* DELETE FROM audio_metadata WHERE filename = ?
DeleteWhere(table, filename) ==
    IF table = <<>> THEN <<>>
    ELSE IF Head(table).filename = filename
         THEN DeleteWhere(Tail(table), filename)
         ELSE <<Head(table)>> \o DeleteWhere(Tail(table), filename)

\* The table is kept in rowid order; an INSERT takes the next rowid.
InsertRow(table, filename, mfcc, ipfs_hash, tx_hash) ==
    Append(table, [filename |-> filename, mfcc |-> mfcc,
                   ipfs_hash |-> ipfs_hash, blockchain_tx |-> tx_hash])

\* The table after store_audio_metadata returns normally.
store_audio_metadata(table, filename, audio, ipfs_hash, tx_hash) ==
    LET mfcc_vector == get_mfcc(audio)
    IN IF mfcc_vector = None THEN table
       ELSE InsertRow(DeleteWhere(table, filename), filename, mfcc_vector,
                      ipfs_hash, tx_hash)

\* ------------------------------------------------------------------- state
VARIABLES
    store,            \* rows of audio_metadata, in rowid order
    disk,             \* unique filenames present in uploaded_audio/
    ipfs,             \* content identifiers held by the IPFS node
    ledger,           \* registerAudio transactions, in order
    nreq,             \* submissions received so far
    steps,            \* per submission, the pipeline steps it has completed
    pc,               \* per worker, its position in upload_audio
    audio,            \* per worker, the file of its request
    unique_filename,  \* per worker
    existing_audios,  \* per worker, the rows fetched by the SELECT
    similarity,       \* per worker, the value of check_audio_similarity
    evaluated,        \* per worker, rows visited by the scan loop
    ipfs_hash,        \* per worker
    tx_hash_hex,      \* per worker
    response,         \* per worker, the answer to its last request
    calls             \* SpecStore: the arguments of the direct calls made

vars == <<store, disk, ipfs, ledger, nreq, steps, pc, audio, unique_filename,
          existing_audios, similarity, evaluated, ipfs_hash, tx_hash_hex,
          response, calls>>

shared == <<store, disk, ipfs, ledger, nreq, steps>>
locals == <<audio, unique_filename, existing_audios, similarity, evaluated,
            ipfs_hash, tx_hash_hex>>
direct == <<calls>>

NoFilename == <<0, "">>
NoHash == <<>>
NoTx == 0
NoResponse == [status |-> 0, message |-> ""]

\* `ipfs add -Q` prints the content identifier, a function of the bytes
IpfsCid(a) == <<"Qm", a>>

Init ==
    /\ store = <<>>
    /\ disk = {}
    /\ ipfs = {}
    /\ ledger = <<>>
    /\ nreq = 0
    /\ steps = <<>>
    /\ pc = [p \in Workers |-> "idle"]
    /\ audio = [p \in Workers |-> Undecodable]
    /\ unique_filename = [p \in Workers |-> NoFilename]
    /\ existing_audios = [p \in Workers |-> <<>>]
    /\ similarity = [p \in Workers |-> 0]
    /\ evaluated = [p \in Workers |-> 0]
    /\ ipfs_hash = [p \in Workers |-> NoHash]
    /\ tx_hash_hex = [p \in Workers |-> NoTx]
    /\ response = [p \in Workers |-> NoResponse]
    /\ calls = <<>>

Sid(p) == unique_filename[p][1]
Did(p, what) == [steps EXCEPT ![Sid(p)] = Append(@, what)]

\* ------------------------------------------------------------ upload_audio
\* lines 135-136: a request without a file; the worker holds nothing of
\* the request it served before
NoFile(p) ==
    /\ pc[p] = "idle"
    /\ audio' = [audio EXCEPT ![p] = Undecodable]
    /\ unique_filename' = [unique_filename EXCEPT ![p] = NoFilename]
    /\ existing_audios' = [existing_audios EXCEPT ![p] = <<>>]
    /\ similarity' = [similarity EXCEPT ![p] = 0]
    /\ evaluated' = [evaluated EXCEPT ![p] = 0]
    /\ ipfs_hash' = [ipfs_hash EXCEPT ![p] = NoHash]
    /\ tx_hash_hex' = [tx_hash_hex EXCEPT ![p] = NoTx]
    /\ response' = [response EXCEPT ![p] =
                       [status |-> 400, message |-> "No file uploaded"]]
    /\ UNCHANGED <<shared, pc, direct>>

\* lines 138-144: the file is saved under a fresh uuid4 name
Receive(p, a, filename) ==
    /\ pc[p] = "idle"
    /\ nreq < MaxSubmissions
    /\ nreq' = nreq + 1
    /\ steps' = Append(steps, <<>>)
    /\ unique_filename' = [unique_filename EXCEPT ![p] = <<nreq + 1, filename>>]
    /\ audio' = [audio EXCEPT ![p] = a]
    /\ disk' = disk \cup {<<nreq + 1, filename>>}
    /\ existing_audios' = [existing_audios EXCEPT ![p] = <<>>]
    /\ similarity' = [similarity EXCEPT ![p] = 0]
    /\ evaluated' = [evaluated EXCEPT ![p] = 0]
    /\ ipfs_hash' = [ipfs_hash EXCEPT ![p] = NoHash]
    /\ tx_hash_hex' = [tx_hash_hex EXCEPT ![p] = NoTx]
    /\ response' = [response EXCEPT ![p] = NoResponse]
    /\ pc' = [pc EXCEPT ![p] = "scan"]
    /\ UNCHANGED <<store, ipfs, ledger, direct>>

\* lines 81-83 and 145-146: get_mfcc fails, check_audio_similarity returns
\* 0, and 0 >= 75 is false
ExtractFail(p) ==
    /\ pc[p] = "scan"
    /\ get_mfcc(audio[p]) = None
    /\ similarity' = [similarity EXCEPT ![p] = 0]
    /\ steps' = Did(p, "scan")
    /\ pc' = [pc EXCEPT ![p] = "ipfs"]
    /\ UNCHANGED <<store, disk, ipfs, ledger, nreq, audio, unique_filename,
                   existing_audios, evaluated, ipfs_hash, tx_hash_hex,
                   response, direct>>

\* lines 85-88: one SELECT reads the whole table
LoadCorpus(p) ==
    /\ pc[p] = "scan"
    /\ get_mfcc(audio[p]) # None
    /\ existing_audios' = [existing_audios EXCEPT ![p] = store]
    /\ pc' = [pc EXCEPT ![p] = "loop"]
    /\ UNCHANGED <<shared, audio, unique_filename, similarity, evaluated,
                   ipfs_hash, tx_hash_hex, response, direct>>

\* the request dies of an exception no handler catches: Flask answers 500
InternalError == [status |-> 500, message |-> "Internal Server Error"]

\* lines 85-88 raising sqlite3.Error
LoadCorpusError(p) ==
    /\ pc[p] = "scan"
    /\ get_mfcc(audio[p]) # None
    /\ response' = [response EXCEPT ![p] = InternalError]
    /\ pc' = [pc EXCEPT ![p] = "idle"]
    /\ UNCHANGED <<shared, locals, direct>>

TooSimilar(s) ==
    [status |-> 400, message |-> "Audio too similar.", similarity |-> s]

\* upload_audio rejecting only above 75 (> for >=)
ScanLoopStrict(p) ==
    /\ pc[p] = "loop"
    /\ LET r == ScanLoopResult(get_mfcc(audio[p]), existing_audios[p])
       IN /\ similarity' = [similarity EXCEPT ![p] = r.ret]
          /\ evaluated' = [evaluated EXCEPT ![p] = r.evaluated]
          /\ steps' = Did(p, "scan")
          /\ IF r.ret > REJECT_THRESHOLD
             THEN /\ disk' = disk \ {unique_filename[p]}
                  /\ response' = [response EXCEPT ![p] = TooSimilar(r.ret)]
                  /\ pc' = [pc EXCEPT ![p] = "idle"]
             ELSE /\ pc' = [pc EXCEPT ![p] = "ipfs"]
                  /\ UNCHANGED <<disk, response>>
    /\ UNCHANGED <<store, ipfs, ledger, nreq, audio, unique_filename,
                   existing_audios, ipfs_hash, tx_hash_hex, direct>>

\* a scan that walks the live table instead of the rows it fetched
ScanLoopLive(p) ==
    /\ pc[p] = "loop"
    /\ LET r == ScanLoopResult(get_mfcc(audio[p]), store)
       IN /\ similarity' = [similarity EXCEPT ![p] = r.ret]
          /\ evaluated' = [evaluated EXCEPT ![p] = r.evaluated]
          /\ steps' = Did(p, "scan")
          /\ IF r.ret >= REJECT_THRESHOLD
             THEN /\ disk' = disk \ {unique_filename[p]}
                  /\ response' = [response EXCEPT ![p] = TooSimilar(r.ret)]
                  /\ pc' = [pc EXCEPT ![p] = "idle"]
             ELSE /\ pc' = [pc EXCEPT ![p] = "ipfs"]
                  /\ UNCHANGED <<disk, response>>
    /\ UNCHANGED <<store, ipfs, ledger, nreq, audio, unique_filename,
                   existing_audios, ipfs_hash, tx_hash_hex, direct>>

\* lines 90-100 on the fetched rows, then lines 146-149
ScanLoop(p) ==
    /\ pc[p] = "loop"
    /\ LET r == ScanLoopResult(get_mfcc(audio[p]), existing_audios[p])
       IN /\ similarity' = [similarity EXCEPT ![p] = r.ret]
          /\ evaluated' = [evaluated EXCEPT ![p] = r.evaluated]
          /\ steps' = Did(p, "scan")
          /\ IF r.ret >= REJECT_THRESHOLD
             THEN /\ disk' = disk \ {unique_filename[p]}
                  /\ response' = [response EXCEPT ![p] = TooSimilar(r.ret)]
                  /\ pc' = [pc EXCEPT ![p] = "idle"]
             ELSE /\ pc' = [pc EXCEPT ![p] = "ipfs"]
                  /\ UNCHANGED <<disk, response>>
    /\ UNCHANGED <<store, ipfs, ledger, nreq, audio, unique_filename,
                   existing_audios, ipfs_hash, tx_hash_hex, direct>>

\* lines 151, 102-111: `ipfs add` exits 0
IpfsOk(p) ==
    /\ pc[p] = "ipfs"
    /\ ipfs' = ipfs \cup {IpfsCid(audio[p])}
    /\ ipfs_hash' = [ipfs_hash EXCEPT ![p] = IpfsCid(audio[p])]
    /\ steps' = Did(p, "upload")
    /\ pc' = [pc EXCEPT ![p] = "register"]
    /\ UNCHANGED <<store, disk, ledger, nreq, audio, unique_filename,
                   existing_audios, similarity, evaluated, tx_hash_hex,
                   response, direct>>

\* lines 112-117, 152-153
IpfsFail(p) ==
    /\ pc[p] = "ipfs"
    /\ response' = [response EXCEPT ![p] =
                       [status |-> 500, message |-> "IPFS upload failed"]]
    /\ pc' = [pc EXCEPT ![p] = "idle"]
    /\ UNCHANGED <<shared, locals, direct>>

\* lines 157-160: the transaction is accepted; its hash is its position
RegisterOk(p) ==
    /\ pc[p] = "register"
    /\ ledger' = Append(ledger, [filename |-> unique_filename[p][2],
                                 ipfs_hash |-> ipfs_hash[p]])
    /\ tx_hash_hex' = [tx_hash_hex EXCEPT ![p] = Len(ledger) + 1]
    /\ steps' = Did(p, "register")
    /\ pc' = [pc EXCEPT ![p] = "persist"]
    /\ UNCHANGED <<store, disk, ipfs, nreq, audio, unique_filename,
                   existing_audios, similarity, evaluated, ipfs_hash,
                   response, direct>>

\* an except clause of lines 161-163 that logs and falls through to line 165
RegisterFailPersist(p) ==
    /\ pc[p] = "register"
    /\ store' = store_audio_metadata(store, unique_filename[p], audio[p],
                                     ipfs_hash[p], NoTx)
    /\ response' = [response EXCEPT ![p] =
                       [status |-> 500,
                        message |-> "Blockchain registration failed"]]
    /\ pc' = [pc EXCEPT ![p] = "idle"]
    /\ UNCHANGED <<disk, ipfs, ledger, nreq, steps, locals, direct>>

\* lines 161-163
RegisterFail(p) ==
    /\ pc[p] = "register"
    /\ response' = [response EXCEPT ![p] =
                       [status |-> 500,
                        message |-> "Blockchain registration failed"]]
    /\ pc' = [pc EXCEPT ![p] = "idle"]
    /\ UNCHANGED <<shared, locals, direct>>

Stored == [status |-> 200, message |-> "Audio stored!"]

\* lines 165-167: store_audio_metadata returns and the request answers 200
Persist(p) ==
    /\ pc[p] = "persist"
    /\ store' = store_audio_metadata(store, unique_filename[p], audio[p],
                                     ipfs_hash[p], tx_hash_hex[p])
    /\ steps' = Did(p, "persist")
    /\ response' = [response EXCEPT ![p] = Stored]
    /\ pc' = [pc EXCEPT ![p] = "idle"]
    /\ UNCHANGED <<disk, ipfs, ledger, nreq, locals, direct>>

\* a store_audio_metadata that commits the INSERT before the error is raised
PersistErrorCommitted(p) ==
    /\ pc[p] = "persist"
    /\ get_mfcc(audio[p]) # None
    /\ store' = store_audio_metadata(store, unique_filename[p], audio[p],
                                     ipfs_hash[p], tx_hash_hex[p])
    /\ response' = [response EXCEPT ![p] = InternalError]
    /\ pc' = [pc EXCEPT ![p] = "idle"]
    /\ UNCHANGED <<disk, ipfs, ledger, nreq, steps, locals, direct>>

\* lines 124-131 raising sqlite3.Error: the with block rolls the transaction
\* back and the exception leaves upload_audio
PersistError(p) ==
    /\ pc[p] = "persist"
    /\ get_mfcc(audio[p]) # None
    /\ response' = [response EXCEPT ![p] = InternalError]
    /\ pc' = [pc EXCEPT ![p] = "idle"]
    /\ UNCHANGED <<shared, locals, direct>>

Next ==
    \E p \in Workers :
        \/ NoFile(p)
        \/ \E a \in UploadAudios, f \in Filenames : Receive(p, a, f)
        \/ ExtractFail(p)
        \/ LoadCorpus(p)
        \/ LoadCorpusError(p)
        \/ ScanLoop(p)
        \/ IpfsOk(p)
        \/ IpfsFail(p)
        \/ RegisterOk(p)
        \/ RegisterFail(p)
        \/ Persist(p)
        \/ PersistError(p)

Spec == Init /\ [][Next]_vars

\* ------------------------------------------- the scan on an existing table
\* audio_database.db outlives the process (CREATE TABLE IF NOT EXISTS), so a
\* scan may meet any table of the schema: fingerprints of earlier uploads of
\* any length, and mfcc TEXT that is no JSON at all.
StoredTexts ==
    {json_dumps(a.features) : a \in Audios \ {Undecodable}} \cup {InvalidText}

ExistingRow(i, t) ==
    [filename |-> <<100 + i, "song.wav">>, mfcc |-> t,
     ipfs_hash |-> NoHash, blockchain_tx |-> NoTx]

ExistingTables ==
    UNION {{[i \in 1..n |-> ExistingRow(i, ts[i])] : ts \in [1..n -> StoredTexts]}
           : n \in 0..MaxCorpus}

\* one request, saved and about to be scanned, in front of an existing table
InitScan ==
    /\ store \in ExistingTables
    /\ disk = {<<1, "song.wav">>}
    /\ ipfs = {}
    /\ ledger = <<>>
    /\ nreq = 1
    /\ steps = << <<>> >>
    /\ pc = [p \in Workers |-> IF p = "w1" THEN "scan" ELSE "idle"]
    /\ audio \in {[p \in Workers |-> IF p = "w1" THEN a ELSE Undecodable]
                    : a \in Audios}
    /\ unique_filename =
           [p \in Workers |-> IF p = "w1" THEN <<1, "song.wav">> ELSE NoFilename]
    /\ existing_audios = [p \in Workers |-> <<>>]
    /\ similarity = [p \in Workers |-> 0]
    /\ evaluated = [p \in Workers |-> 0]
    /\ ipfs_hash = [p \in Workers |-> NoHash]
    /\ tx_hash_hex = [p \in Workers |-> NoTx]
    /\ response = [p \in Workers |-> NoResponse]
    /\ calls = <<>>

NextScan ==
    \E p \in Workers :
        \/ ExtractFail(p)
        \/ LoadCorpus(p)
        \/ ScanLoop(p)

SpecScan == InitScan /\ [][NextScan]_vars

\* ------------------------------------- store_audio_metadata called directly
DirectNames == {<<1, "song.wav">>, <<2, "song.wav">>}
DirectAudios == {AudioP, AudioQ, Undecodable}

\* one call of store_audio_metadata that returns normally; the transaction
\* hash handed in is that of a fresh transaction
StoreCall(filename, a) ==
    /\ Len(calls) < MaxCalls
    /\ store' = store_audio_metadata(store, filename, a, IpfsCid(a),
                                     Len(calls) + 1)
    /\ calls' = Append(calls, [filename |-> filename, audio |-> a])
    /\ UNCHANGED <<disk, ipfs, ledger, nreq, steps, pc, locals, response>>

NextStore == \E filename \in DirectNames, a \in DirectAudios : StoreCall(filename, a)

SpecStore == Init /\ [][NextStore]_vars

\* ================================================================== claims
\* check_audio_similarity has returned for the request worker p is serving
Scanned(p) == Sid(p) > 0 /\ steps[Sid(p)] # <<>>
HasRow(table, filename) == \E i \in 1..Len(table) : table[i].filename = filename
Count(table, filename) ==
    Cardinality({i \in 1..Len(table) : table[i].filename = filename})
Others(table, filename) ==
    LET Keep(r) == r.filename # filename IN SelectSeq(table, Keep)

\* the score of audio a against a stored row, in 1/10000
RowScore(a, row) == compute_similarity(a.features, row.mfcc.items).val
\* the comparison of a with the row fails: text that is no JSON, another
\* length, or a zero vector on either side
RowFails(a, row) ==
    \/ row.mfcc.json # "array"
    \/ Len(row.mfcc.items) # Len(a.features)
    \/ Dot(a.features, a.features) = 0
    \/ Dot(row.mfcc.items, row.mfcc.items) = 0
RowQualifies(a, row) == ~RowFails(a, row) /\ RowScore(a, row) >= MATCH_THRESHOLD
Qualifying(a, rows) == {i \in 1..Len(rows) : RowQualifies(a, rows[i])}

\* C1: when some fetched row scores at least 0.50, the scan returns 100
\* times the score of the earliest such row and has visited no row after it.
C1_FirstMatch ==
    \A p \in Workers :
        (Scanned(p) /\ audio[p].decodable
            /\ Qualifying(audio[p], existing_audios[p]) # {})
        => LET Q == Qualifying(audio[p], existing_audios[p])
               k == CHOOSE i \in Q : \A j \in Q : i <= j
           IN /\ similarity[p] = 100 * RowScore(audio[p], existing_audios[p][k])
              /\ evaluated[p] = k

\* the returned match is followed by an unvisited row that scores higher
C1_Witness ==
    \E p \in Workers :
        /\ Scanned(p) /\ audio[p].decodable
        /\ \E i, j \in 1..Len(existing_audios[p]) :
              /\ i < j
              /\ evaluated[p] = i
              /\ similarity[p] = 100 * RowScore(audio[p], existing_audios[p][i])
              /\ RowQualifies(audio[p], existing_audios[p][j])
              /\ RowScore(audio[p], existing_audios[p][j])
                     > RowScore(audio[p], existing_audios[p][i])

\* C2: the scan returns 0 exactly when extraction failed, the table is
\* empty, or no row scores at least 0.50 (a score of exactly 0.50 matches).
C2_NotDuplicateIff ==
    \A p \in Workers :
        Scanned(p) =>
            (similarity[p] = 0
                <=> \/ get_mfcc(audio[p]) = None
                    \/ store = <<>>
                    \/ \A i \in 1..Len(store) : ~RowQualifies(audio[p], store[i]))

\* a scan that returned on a row scoring exactly 0.50
C2_Witness ==
    \E p \in Workers :
        /\ Scanned(p)
        /\ similarity[p] = 100 * MATCH_THRESHOLD
        /\ RowScore(audio[p], store[evaluated[p]]) = MATCH_THRESHOLD

\* C3: the value returned is the one the scan returns on the fetched rows
\* with every failing row removed, and the row it returns on never fails.
C3_FailingRowsSkipped ==
    \A p \in Workers :
        (Scanned(p) /\ audio[p].decodable)
        => LET Sound(r) == ~RowFails(audio[p], r)
               kept == SelectSeq(existing_audios[p], Sound)
           IN /\ similarity[p] = ScanLoopResult(get_mfcc(audio[p]), kept).ret
              /\ similarity[p] # 0
                   => ~RowFails(audio[p], existing_audios[p][evaluated[p]])

\* a match found behind an unreadable row and a row of another length
C3_Witness ==
    \E p \in Workers :
        /\ Scanned(p) /\ audio[p].decodable
        /\ similarity[p] >= 100 * MATCH_THRESHOLD
        /\ evaluated[p] = 3
        /\ \E i, j \in 1..2 :
              /\ existing_audios[p][i].mfcc.json # "array"
              /\ existing_audios[p][j].mfcc.json = "array"
              /\ Len(existing_audios[p][j].mfcc.items) # Len(audio[p].features)

\* C4: a request whose scan returned 75 or more is answered "Audio too
\* similar." with that value and its file removed, having done nothing but
\* the scan; a request whose scan returned less than 75 is never answered so,
\* keeps its file, and goes on to the IPFS upload.
C4_TwoThresholds ==
    \A p \in Workers :
        Scanned(p) =>
            /\ similarity[p] >= REJECT_THRESHOLD
                 => /\ pc[p] = "idle"
                    /\ response[p] = TooSimilar(similarity[p])
                    /\ unique_filename[p] \notin disk
                    /\ steps[Sid(p)] = <<"scan">>
                    /\ ~HasRow(store, unique_filename[p])
            /\ similarity[p] < REJECT_THRESHOLD
                 => /\ response[p].message # "Audio too similar."
                    /\ unique_filename[p] \in disk
                    /\ steps[Sid(p)] = <<"scan">>
                         => \/ pc[p] = "ipfs"
                            \/ response[p].message = "IPFS upload failed"

\* a request flagged by the scan (50 or more) and stored all the same
C4_Witness ==
    \E p \in Workers :
        /\ response[p] = Stored
        /\ similarity[p] >= 100 * MATCH_THRESHOLD
        /\ similarity[p] < REJECT_THRESHOLD
        /\ HasRow(store, unique_filename[p])

\* C5: after a call of store_audio_metadata no filename has two rows, the
\* rows of other filenames are as before, and, when the file yields a
\* fingerprint, the filename has exactly one row, the one just inserted.
C5_Upsert ==
    [][calls' # calls =>
        LET c == calls'[Len(calls')]
        IN /\ \A f \in DirectNames : Count(store', f) <= 1
           /\ Others(store', c.filename) = Others(store, c.filename)
           /\ c.audio.decodable
                => /\ Count(store', c.filename) = 1
                   /\ store'[Len(store')] =
                          [filename |-> c.filename,
                           mfcc |-> json_dumps(c.audio.features),
                           ipfs_hash |-> IpfsCid(c.audio),
                           blockchain_tx |-> Len(calls')]
           /\ ~c.audio.decodable => store' = store]_vars

\* two calls with the same filename and file have left one row, the second
C5_Witness ==
    /\ Len(calls) = 2
    /\ calls[1] = calls[2]
    /\ calls[1].audio.decodable
    /\ Len(store) = 1
    /\ store[1].filename = calls[1].filename
    /\ store[1].blockchain_tx = 2

\* C6: the table changes only by the insert of a worker that has scanned
\* (below 75), uploaded and registered, in that order; a step that answers
\* with a rejection or an upload or registration failure leaves it alone.
C6_InsertOnlyAfterPipeline ==
    [][/\ store' # store =>
            \E p \in Workers :
               /\ pc[p] = "persist"
               /\ steps[Sid(p)] = <<"scan", "upload", "register">>
               /\ similarity[p] < REJECT_THRESHOLD
               /\ ipfs_hash[p] \in ipfs
               /\ tx_hash_hex[p] \in 1..Len(ledger)
               /\ ledger[tx_hash_hex[p]].ipfs_hash = ipfs_hash[p]
               /\ store' = Append(store,
                                  [filename |-> unique_filename[p],
                                   mfcc |-> get_mfcc(audio[p]),
                                   ipfs_hash |-> ipfs_hash[p],
                                   blockchain_tx |-> tx_hash_hex[p]])
       /\ \A p \in Workers :
            (response'[p] # response[p]
                /\ response'[p].message \in {"Audio too similar.",
                                              "IPFS upload failed",
                                              "Blockchain registration failed"})
            => store' = store]_vars

\* a request that went through the four steps and has its row
C6_Witness ==
    \E p \in Workers :
        /\ response[p] = Stored
        /\ steps[Sid(p)] = <<"scan", "upload", "register", "persist">>
        /\ HasRow(store, unique_filename[p])

\* C7: a request whose fingerprint extraction failed goes no further than
\* the scan: no upload, no registration, no persistence step, no success.
C7_ExtractionFailureIsFatal ==
    \A p \in Workers :
        (Sid(p) > 0 /\ get_mfcc(audio[p]) = None)
        => /\ \A i \in 1..Len(steps[Sid(p)]) : steps[Sid(p)][i] = "scan"
           /\ response[p] # Stored

\* C8: the value a request decides on is the scan of the rows it fetched,
\* whatever the table holds by the time the loop runs.
C8_DecidesOnSnapshot ==
    \A p \in Workers :
        (Scanned(p) /\ audio[p].decodable)
        => similarity[p]
               = ScanLoopResult(get_mfcc(audio[p]), existing_audios[p]).ret

\* two requests scoring 0.75 or more against each other both fetched an
\* empty table, both were stored, and the table holds both rows
C8_Witness ==
    \E p, q \in Workers :
        /\ p # q
        /\ response[p] = Stored /\ response[q] = Stored
        /\ audio[p].decodable /\ audio[q].decodable
        /\ ~RowFails(audio[p], [mfcc |-> get_mfcc(audio[q])])
        /\ 100 * compute_similarity(audio[p].features, audio[q].features).val
               >= REJECT_THRESHOLD
        /\ existing_audios[p] = <<>> /\ existing_audios[q] = <<>>
        /\ similarity[p] = 0 /\ similarity[q] = 0
        /\ Len(store) = 2
        /\ HasRow(store, unique_filename[p])
        /\ HasRow(store, unique_filename[q])

\* C9: a request that died in store_audio_metadata is answered with an
\* error, its transaction is still on the ledger, its content still on
\* IPFS, and the table has no row for it.
C9_StoreErrorLeavesRegistration ==
    \A p \in Workers :
        (Sid(p) > 0 /\ pc[p] = "idle"
            /\ steps[Sid(p)] = <<"scan", "upload", "register">>)
        => /\ response[p] = InternalError
           /\ tx_hash_hex[p] \in 1..Len(ledger)
           /\ ledger[tx_hash_hex[p]] = [filename |-> unique_filename[p][2],
                                        ipfs_hash |-> ipfs_hash[p]]
           /\ ipfs_hash[p] \in ipfs
           /\ ~HasRow(store, unique_filename[p])

\* a request answered with the error after its registration
C9_Witness ==
    \E p \in Workers :
        /\ response[p] = InternalError
        /\ steps[Sid(p)] = <<"scan", "upload", "register">>
        /\ Len(ledger) > 0

\* C10: a request answered "Audio stored!" has a row under its unique
\* filename holding its fingerprint, its IPFS hash and its transaction hash.
C10_SuccessMeansStored ==
    \A p \in Workers :
        response[p] = Stored
        => /\ Count(store, unique_filename[p]) = 1
           /\ \E i \in 1..Len(store) :
                 /\ store[i].filename = unique_filename[p]
                 /\ store[i].mfcc = get_mfcc(audio[p])
                 /\ store[i].mfcc # None
                 /\ store[i].ipfs_hash = ipfs_hash[p]
                 /\ store[i].blockchain_tx = tx_hash_hex[p]

====
